---- MODULE Spec2Model ----
(***************************************************************************)
(* Model of pkg/registry.go: RegistryClient.IsTagExist and the helpers it  *)
(* calls.  Go strings are sequences of bytes, so that string formatting,   *)
(* base64 encoding and environment-variable names are computed as the code *)
(* computes them.  Every IsTagExist invocation is a process; its blocking  *)
(* HTTP calls are the points where invocations interleave.                 *)
(***************************************************************************)
EXTENDS Integers, Sequences, FiniteSets, TLC

VARIABLES
    client,       \* the RegistryClient fields (HttpClient is the registry below)
    env,          \* the process environment: variable name -> value
    server,       \* the registry's answers so far: a set of [req, out]
    pc,           \* per invocation: position in IsTagExist
    tag,          \* per invocation: the tag argument
    authToken,    \* per invocation: local authToken of getBearerTokenFromAuthToken
    bearerToken,  \* per invocation: local bearerToken of IsTagExist
    ret,          \* per invocation: the returned (found, err)
    log,          \* per invocation: the HTTP requests sent and their outcomes, in order
    anonErr,      \* per invocation: the error of the anonymous check (Nil: none)
    reads,        \* per invocation: the environment variables read
    exchErr       \* per invocation: the error getBearerTokenFromAuthToken returned

vars == <<client, env, server, pc, tag, authToken, bearerToken, ret, log, anonErr, reads, exchErr>>

(***************************************************************************)
(* Bounds and input sets.                                                  *)
(***************************************************************************)
NumProcs == 2

\* Strings used by the code and by the inputs, as byte sequences.
S_Empty == << >>
S_Bearer == <<66, 101, 97, 114, 101, 114, 32>>                     \* "Bearer "
S_Basic == <<66, 97, 115, 105, 99, 32>>                            \* "Basic "
S_TOKEN == <<95, 84, 79, 75, 69, 78>>                              \* "_TOKEN"
S_AUTH == <<95, 65, 85, 84, 72>>                                   \* "_AUTH"
S_USER == <<95, 85, 83, 69, 82>>                                   \* "_USER"
S_PASSWORD == <<95, 80, 65, 83, 83, 87, 79, 82, 68>>               \* "_PASSWORD"
S_GITHUB_TOKEN == <<71, 73, 84, 72, 85, 66, 95, 84, 79, 75, 69, 78>> \* "GITHUB_TOKEN"
S_GHCR_IO == <<71, 72, 67, 82, 95, 73, 79>>                        \* "GHCR_IO"
S_QUAY_IO == <<81, 85, 65, 89, 95, 73, 79>>                        \* "QUAY_IO"
S_GITHUB == <<71, 73, 84, 72, 85, 66>>                             \* "GITHUB"
S_Colon == <<58>>                                                  \* ":"

RegistryNames == {S_GHCR_IO, S_QUAY_IO, S_GITHUB}
Tags == {<<118, 49>>, <<118, 127>>}           \* "v1", and "v" + DEL (no valid URL)
TokenValues == {S_Empty, <<97, 98, 99>>}      \* "", "abc"
AuthValues == {S_Empty, <<81, 81, 61, 61>>}   \* "", "QQ=="
UserValues == {S_Empty, <<117>>}              \* "", "u"
PassValues == {S_Empty, <<112>>}              \* "", "p"
GithubValues == {S_Empty, <<120, 121, 122>>}  \* "", "xyz"
S_tok == <<116, 111, 107>>                    \* "tok", a token the registry issues

StatusOK == 200
StatusNotFound == 404

(***************************************************************************)
(* Errors.  Nil is Go's nil error; every other error is a record that      *)
(* carries what the message is formatted from.                             *)
(***************************************************************************)
Error(kind, code, name) == [kind |-> kind, code |-> code, name |-> name]
Nil == Error("nil", 0, S_Empty)
ErrNewRequest == Error("http.NewRequest", 0, S_Empty)
ErrDo == Error("HttpClient.Do", 0, S_Empty)
ErrReadAll == Error("io.ReadAll", 0, S_Empty)
ErrUnmarshal == Error("json.Unmarshal", 0, S_Empty)
ErrAuthStatus(status) == Error("unexpected response code", status, S_Empty)
ErrManifestStatus(status) == Error("unexpected response registry API", status, S_Empty)
ErrCredentials(name) == Error("could not get credentials for", 0, name)
ErrAuthToken(name) == Error("could not get auth token for", 0, name)
ErrBearerToken(name) == Error("could not get a bearer token for", 0, name)

(***************************************************************************)
(* Library functions the code calls, modelled by what they compute.        *)
(***************************************************************************)
\* The base64 standard alphabet: 6-bit value -> ASCII byte.
B64Char(i) ==
    IF i < 26 THEN 65 + i
    ELSE IF i < 52 THEN 97 + (i - 26)
    ELSE IF i < 62 THEN 48 + (i - 52)
    ELSE IF i = 62 THEN 43
    ELSE 47

\* base64.StdEncoding.EncodeToString: 3 bytes -> 4 characters, padded with '='.
RECURSIVE Base64(_)
Base64(s) ==
    IF Len(s) = 0 THEN << >>
    ELSE IF Len(s) = 1 THEN
        <<B64Char(s[1] \div 4), B64Char((s[1] % 4) * 16), 61, 61>>
    ELSE IF Len(s) = 2 THEN
        <<B64Char(s[1] \div 4), B64Char((s[1] % 4) * 16 + s[2] \div 16),
          B64Char((s[2] % 16) * 4), 61>>
    ELSE
        <<B64Char(s[1] \div 4), B64Char((s[1] % 4) * 16 + s[2] \div 16),
          B64Char((s[2] % 16) * 4 + s[3] \div 64), B64Char(s[3] % 64)>>
        \o Base64(SubSeq(s, 4, Len(s)))

\* fmt.Sprintf("%s_TOKEN", r.RegistryName) and its like: the variables' names.
NameToken == client.RegistryName \o S_TOKEN
NameAuth == client.RegistryName \o S_AUTH
NameUser == client.RegistryName \o S_USER
NamePassword == client.RegistryName \o S_PASSWORD

\* os.Getenv: the value of the variable, "" when it is not set.
Getenv(name) == IF name \in DOMAIN env THEN env[name] ELSE S_Empty

\* A response body, as json.Unmarshal sees it: not JSON at all, or a JSON object
\* whose "token" member is absent, a string, or a number.
Body(syntax, member, token) == [syntax |-> syntax, member |-> member, token |-> token]
NoBody == Body("invalid", "absent", S_Empty)
AuthBodies ==
    { NoBody,
      Body("object", "absent", S_Empty),       \* {}
      Body("object", "string", S_Empty),       \* {"token": ""}
      Body("object", "string", S_tok),         \* {"token": "tok"}
      Body("object", "number", S_Empty) }      \* {"token": 1}

\* json.Unmarshal(res, &token) into tokenResponse{Token string `json:"token"`}.
Unmarshal(body) ==
    IF body.syntax = "invalid" THEN [Token |-> S_Empty, err |-> ErrUnmarshal]
    ELSE IF body.member = "number" THEN [Token |-> S_Empty, err |-> ErrUnmarshal]
    ELSE IF body.member = "string" THEN [Token |-> body.token, err |-> Nil]
    ELSE [Token |-> S_Empty, err |-> Nil]

\* What the network and the registry do with one request: HttpClient.Do fails,
\* reading the body fails, or a response with a status and a body arrives.
Outcome(kind, status, body) == [kind |-> kind, status |-> status, body |-> body]
HeadOutcomes ==
    { Outcome("do_err", 0, NoBody) }
    \cup { Outcome("response", st, NoBody) : st \in {StatusOK, StatusNotFound, 401, 500} }
GetOutcomes ==
    { Outcome("do_err", 0, NoBody), Outcome("read_err", StatusOK, NoBody),
      Outcome("response", 401, NoBody) }
    \cup { Outcome("response", StatusOK, b) : b \in AuthBodies }

\* fmt.Sprintf(authAPI, ...) and fmt.Sprintf(manifestAPI, ...): the endpoint, kept
\* as the API and the values formatted into it.
authAPI(url, path) == [api |-> "auth", url |-> url, path |-> path, tag |-> S_Empty]
manifestAPI(url, path, t) == [api |-> "manifest", url |-> url, path |-> path, tag |-> t]

\* http.NewRequest parses the URL and rejects one holding an ASCII control byte.
ValidURL(endpoint) == \A i \in 1..Len(endpoint.tag) :
                          endpoint.tag[i] >= 32 /\ endpoint.tag[i] # 127

Request(method, endpoint, auth) == [method |-> method, endpoint |-> endpoint, auth |-> auth]

(***************************************************************************)
(* The methods of RegistryClient, as functions of the outcome of the HTTP  *)
(* exchange they perform.                                                  *)
(***************************************************************************)
\* retrieve: (status, body, err); sent tells whether the request left the process.
retrieve(method, endpoint, auth, out) ==
    IF ~ValidURL(endpoint)
    THEN [status |-> -1, body |-> NoBody, err |-> ErrNewRequest, sent |-> FALSE]
    ELSE IF out.kind = "do_err"
    THEN [status |-> -1, body |-> NoBody, err |-> ErrDo, sent |-> TRUE]
    ELSE IF out.kind = "read_err"
    THEN [status |-> -1, body |-> NoBody, err |-> ErrReadAll, sent |-> TRUE]
    ELSE [status |-> out.status, body |-> out.body, err |-> Nil, sent |-> TRUE]

\* The request retrieveBearerToken builds.
retrieveBearerTokenRequest(auth) ==
    Request("GET", authAPI(client.RegistryURL, client.ImagePath), S_Basic \o auth)

retrieveBearerToken(auth, out) ==
    LET rq == retrieveBearerTokenRequest(auth)
        r == retrieve(rq.method, rq.endpoint, rq.auth, out)
    IN  IF r.err # Nil THEN [token |-> S_Empty, err |-> r.err, reads |-> {}]
        ELSE IF r.status # StatusOK
        THEN [token |-> S_Empty, err |-> ErrAuthStatus(r.status), reads |-> {}]
        ELSE LET u == Unmarshal(r.body)
             IN  IF u.err # Nil THEN [token |-> S_Empty, err |-> u.err, reads |-> {}]
                 ELSE [token |-> u.Token, err |-> Nil, reads |-> {}]

\* Mutant: the token is sent bare, without the "Bearer " scheme.
checkManifestForTagRequest_BareToken(bearer, t) ==
    Request("HEAD", manifestAPI(client.RegistryURL, client.ImagePath, t), bearer)

\* The request checkManifestForTag builds.
checkManifestForTagRequest(bearer, t) ==
    Request("HEAD", manifestAPI(client.RegistryURL, client.ImagePath, t),
            IF bearer # S_Empty THEN S_Bearer \o bearer ELSE S_Empty)

\* Mutant: every status but 200 counts as "not found".
checkManifestForTag_OtherIsNotFound(bearer, t, out) ==
    LET rq == checkManifestForTagRequest(bearer, t)
        r == retrieve(rq.method, rq.endpoint, rq.auth, out)
    IN  IF r.err # Nil THEN [found |-> FALSE, err |-> r.err]
        ELSE IF r.status = StatusOK THEN [found |-> TRUE, err |-> Nil]
        ELSE [found |-> FALSE, err |-> Nil]

checkManifestForTag(bearer, t, out) ==
    LET rq == checkManifestForTagRequest(bearer, t)
        r == retrieve(rq.method, rq.endpoint, rq.auth, out)
    IN  IF r.err # Nil THEN [found |-> FALSE, err |-> r.err]
        ELSE IF r.status = StatusOK THEN [found |-> TRUE, err |-> Nil]
        ELSE IF r.status = StatusNotFound THEN [found |-> FALSE, err |-> Nil]
        ELSE [found |-> FALSE, err |-> ErrManifestStatus(r.status)]

\* Mutant: the credentials are refused only when both are missing.
getAuthTokenFromCredentials_BothMissing ==
    LET user == Getenv(NameUser)
        pass == Getenv(NamePassword)
    IN  IF user = S_Empty /\ pass = S_Empty
        THEN [token |-> S_Empty, err |-> ErrCredentials(client.RegistryName)]
        ELSE [token |-> Base64(user \o S_Colon \o pass), err |-> Nil]

getAuthTokenFromCredentials ==
    LET user == Getenv(NameUser)
        pass == Getenv(NamePassword)
    IN  IF user = S_Empty \/ pass = S_Empty
        THEN [token |-> S_Empty, err |-> ErrCredentials(client.RegistryName)]
        ELSE [token |-> Base64(user \o S_Colon \o pass), err |-> Nil]

\* getBearerTokenFromAuthToken up to its call of retrieveBearerToken: the auth
\* token to exchange, or the error it returns without exchanging anything.
\* reads: the environment variables it looked up.
getAuthToken ==
    LET authTokenEnvName == NameAuth
        authTok == Getenv(authTokenEnvName)
        credNames == {NameUser, NamePassword}
    IN  IF authTok # S_Empty
        THEN [token |-> authTok, err |-> Nil, reads |-> {authTokenEnvName}]
        ELSE LET t == getAuthTokenFromCredentials
                 rd == {authTokenEnvName} \cup credNames
             IN  IF t.err # Nil THEN [token |-> S_Empty, err |-> t.err, reads |-> rd]
                 ELSE IF t.token = S_Empty
                 THEN [token |-> S_Empty, err |-> ErrAuthToken(client.RegistryName),
                       reads |-> rd]
                 ELSE [token |-> t.token, err |-> Nil, reads |-> rd]

\* Mutant: GITHUB_TOKEN is not tested for being empty.
getBearerTokenAfter_GithubTokenUntested(res) ==
    IF res.err # Nil /\ client.RegistryName # S_GHCR_IO
    THEN [token |-> S_Empty, err |-> res.err, reads |-> {}]
    ELSE LET bearer == IF res.err # Nil THEN Base64(Getenv(S_GITHUB_TOKEN)) ELSE res.token
             rd == IF res.err # Nil THEN {S_GITHUB_TOKEN} ELSE {}
         IN  IF bearer # S_Empty THEN [token |-> bearer, err |-> Nil, reads |-> rd]
             ELSE [token |-> S_Empty, err |-> ErrBearerToken(client.RegistryName),
                   reads |-> rd]

\* Mutant: GITHUB_TOKEN is used as it is, not base64-encoded.
getBearerTokenAfter_GithubTokenBare(res) ==
    LET github_token == Getenv(S_GITHUB_TOKEN)
    IN  IF res.err # Nil /\ client.RegistryName # S_GHCR_IO
        THEN [token |-> S_Empty, err |-> res.err, reads |-> {}]
        ELSE IF res.err # Nil /\ github_token = S_Empty
        THEN [token |-> S_Empty, err |-> res.err, reads |-> {S_GITHUB_TOKEN}]
        ELSE LET bearer == IF res.err # Nil THEN github_token ELSE res.token
                 rd == IF res.err # Nil THEN {S_GITHUB_TOKEN} ELSE {}
             IN  IF bearer # S_Empty THEN [token |-> bearer, err |-> Nil, reads |-> rd]
                 ELSE [token |-> S_Empty, err |-> ErrBearerToken(client.RegistryName),
                       reads |-> rd]

\* Mutant: the GITHUB_TOKEN fallback is taken for every registry.
getBearerTokenAfter_AnyRegistry(res) ==
    LET github_token == Getenv(S_GITHUB_TOKEN)
    IN  IF res.err # Nil /\ github_token = S_Empty
        THEN [token |-> S_Empty, err |-> res.err, reads |-> {S_GITHUB_TOKEN}]
        ELSE LET bearer == IF res.err # Nil THEN Base64(github_token) ELSE res.token
                 rd == IF res.err # Nil THEN {S_GITHUB_TOKEN} ELSE {}
             IN  IF bearer # S_Empty THEN [token |-> bearer, err |-> Nil, reads |-> rd]
                 ELSE [token |-> S_Empty, err |-> ErrBearerToken(client.RegistryName),
                       reads |-> rd]

\* Mutant: the final test for an empty bearer token is missing.
getBearerTokenAfter_EmptyUntested(res) ==
    LET github_token == Getenv(S_GITHUB_TOKEN)
    IN  IF res.err # Nil /\ client.RegistryName # S_GHCR_IO
        THEN [token |-> S_Empty, err |-> res.err, reads |-> {}]
        ELSE IF res.err # Nil /\ github_token = S_Empty
        THEN [token |-> S_Empty, err |-> res.err, reads |-> {S_GITHUB_TOKEN}]
        ELSE [token |-> IF res.err # Nil THEN Base64(github_token) ELSE res.token,
              err |-> Nil,
              reads |-> IF res.err # Nil THEN {S_GITHUB_TOKEN} ELSE {}]

\* getBearerToken from the return of getBearerTokenFromAuthToken on: the ghcr.io
\* special case and the final check for an empty token.  res is what
\* getBearerTokenFromAuthToken returned; reads: the environment variables looked up.
getBearerTokenAfter(res) ==
    LET github_token == Getenv(S_GITHUB_TOKEN)
    IN  IF res.err # Nil /\ client.RegistryName # S_GHCR_IO
        THEN [token |-> S_Empty, err |-> res.err, reads |-> {}]
        ELSE IF res.err # Nil /\ github_token = S_Empty
        THEN [token |-> S_Empty, err |-> res.err, reads |-> {S_GITHUB_TOKEN}]
        ELSE LET bearer == IF res.err # Nil THEN Base64(github_token) ELSE res.token
                 rd == IF res.err # Nil THEN {S_GITHUB_TOKEN} ELSE {}
             IN  IF bearer # S_Empty THEN [token |-> bearer, err |-> Nil, reads |-> rd]
                 ELSE [token |-> S_Empty, err |-> ErrBearerToken(client.RegistryName),
                       reads |-> rd]

(***************************************************************************)
(* The registry.  An answer depends on the request alone: the first time a *)
(* request is seen any outcome may occur, and the same request is answered *)
(* the same way from then on.  A single invocation never sends the same    *)
(* request twice, so for it every outcome of every request is possible.    *)
(***************************************************************************)
Sent(rq) == ValidURL(rq.endpoint)

Answers(rq) ==
    IF ~Sent(rq) THEN {Outcome("do_err", 0, NoBody)}
    ELSE IF \E e \in server : e.req = rq THEN {e.out : e \in {x \in server : x.req = rq}}
    ELSE IF rq.method = "HEAD" THEN HeadOutcomes
    ELSE GetOutcomes

\* HttpClient.Do(req): the request is sent and its outcome noted.
Do(p, rq, out) ==
    IF Sent(rq)
    THEN /\ server' = server \cup {[req |-> rq, out |-> out]}
         /\ log' = [log EXCEPT ![p] = Append(@, [req |-> rq, out |-> out])]
    ELSE UNCHANGED <<server, log>>

(***************************************************************************)
(* IsTagExist, one action per stretch of code between two HTTP exchanges.  *)
(***************************************************************************)
Procs == DOMAIN pc

\* Mutant: an anonymous "not found" is not taken for an answer.
AnonymousCheck_NotFoundGoesOn(p) ==
    /\ pc[p] = "checkAnonymous"
    /\ LET rq == checkManifestForTagRequest(S_Empty, tag[p])
       IN  \E out \in Answers(rq) :
             LET r == checkManifestForTag(S_Empty, tag[p], out)
             IN  /\ Do(p, rq, out)
                 /\ anonErr' = [anonErr EXCEPT ![p] = r.err]
                 /\ IF r.err = Nil /\ r.found
                    THEN /\ ret' = [ret EXCEPT ![p] = [found |-> r.found, err |-> Nil]]
                         /\ pc' = [pc EXCEPT ![p] = "returned"]
                    ELSE /\ ret' = ret
                         /\ pc' = [pc EXCEPT ![p] = "getBearerToken"]
    /\ UNCHANGED <<client, env, tag, authToken, bearerToken, reads, exchErr>>

\* IsTagExist, lines 139-141: the anonymous check.
AnonymousCheck(p) ==
    /\ pc[p] = "checkAnonymous"
    /\ LET rq == checkManifestForTagRequest(S_Empty, tag[p])
       IN  \E out \in Answers(rq) :
             LET r == checkManifestForTag(S_Empty, tag[p], out)
             IN  /\ Do(p, rq, out)
                 /\ anonErr' = [anonErr EXCEPT ![p] = r.err]
                 /\ IF r.err = Nil
                    THEN /\ ret' = [ret EXCEPT ![p] = [found |-> r.found, err |-> Nil]]
                         /\ pc' = [pc EXCEPT ![p] = "returned"]
                    ELSE /\ ret' = ret
                         /\ pc' = [pc EXCEPT ![p] = "getBearerToken"]
    /\ UNCHANGED <<client, env, tag, authToken, bearerToken, reads, exchErr>>

\* Mutant: IsTagExist does not look at the error of getBearerToken.
FinishGetBearerToken_ErrIgnored(p, res) ==
    LET b == getBearerTokenAfter(res)
    IN  /\ exchErr' = [exchErr EXCEPT ![p] = res.err]
        /\ reads' = [reads EXCEPT ![p] = @ \cup {NameToken} \cup res.reads \cup b.reads]
        /\ bearerToken' = [bearerToken EXCEPT ![p] = b.token]
        /\ pc' = [pc EXCEPT ![p] = "checkWithBearer"]
        /\ ret' = ret

\* How getBearerToken ends once getBearerTokenFromAuthToken has returned res, and
\* IsTagExist lines 143-145 with it.
FinishGetBearerToken(p, res) ==
    LET b == getBearerTokenAfter(res)
    IN  /\ exchErr' = [exchErr EXCEPT ![p] = res.err]
        /\ reads' = [reads EXCEPT ![p] = @ \cup {NameToken} \cup res.reads \cup b.reads]
        /\ IF b.err # Nil
           THEN /\ ret' = [ret EXCEPT ![p] = [found |-> FALSE, err |-> b.err]]
                /\ pc' = [pc EXCEPT ![p] = "returned"]
                /\ bearerToken' = bearerToken
           ELSE /\ bearerToken' = [bearerToken EXCEPT ![p] = b.token]
                /\ pc' = [pc EXCEPT ![p] = "checkWithBearer"]
                /\ ret' = ret

\* IsTagExist line 142: getBearerToken up to the HTTP exchange of
\* retrieveBearerToken, or to its return when it makes none.
GetBearerToken(p) ==
    /\ pc[p] = "getBearerToken"
    /\ LET bearerTokenEnvName == NameToken
           envToken == Getenv(bearerTokenEnvName)
           a == getAuthToken
       IN  IF envToken # S_Empty
           THEN /\ bearerToken' = [bearerToken EXCEPT ![p] = envToken]
                /\ pc' = [pc EXCEPT ![p] = "checkWithBearer"]
                /\ reads' = [reads EXCEPT ![p] = @ \cup {bearerTokenEnvName}]
                /\ UNCHANGED <<authToken, ret, exchErr>>
           ELSE IF a.err = Nil
           THEN /\ authToken' = [authToken EXCEPT ![p] = a.token]
                /\ pc' = [pc EXCEPT ![p] = "retrieveBearerToken"]
                /\ reads' = [reads EXCEPT ![p] = @ \cup {bearerTokenEnvName} \cup a.reads]
                /\ UNCHANGED <<bearerToken, ret, exchErr>>
           ELSE /\ FinishGetBearerToken(p, a)
                /\ authToken' = authToken
    /\ UNCHANGED <<client, env, server, tag, log, anonErr>>

\* retrieveBearerToken's HTTP exchange and the rest of getBearerToken.
RetrieveBearerToken(p) ==
    /\ pc[p] = "retrieveBearerToken"
    /\ LET rq == retrieveBearerTokenRequest(authToken[p])
       IN  \E out \in Answers(rq) :
             LET res == retrieveBearerToken(authToken[p], out)
             IN  /\ Do(p, rq, out)
                 /\ FinishGetBearerToken(p, res)
    /\ UNCHANGED <<client, env, tag, authToken, anonErr>>

\* Mutant: the bearer token is kept in a place the invocations share, so that the
\* check may be made with the token (or the lack of one) of another invocation.
CheckWithBearer_SharedToken(p) ==
    /\ pc[p] = "checkWithBearer"
    /\ \E q \in Procs :
         LET rq == checkManifestForTagRequest(bearerToken[q], tag[p])
         IN  \E out \in Answers(rq) :
               LET r == checkManifestForTag(bearerToken[q], tag[p], out)
               IN  /\ Do(p, rq, out)
                   /\ ret' = [ret EXCEPT ![p] = r]
                   /\ pc' = [pc EXCEPT ![p] = "returned"]
    /\ UNCHANGED <<client, env, tag, authToken, bearerToken, anonErr, reads, exchErr>>

\* IsTagExist line 146: the check with the bearer token.
CheckWithBearer(p) ==
    /\ pc[p] = "checkWithBearer"
    /\ LET rq == checkManifestForTagRequest(bearerToken[p], tag[p])
       IN  \E out \in Answers(rq) :
             LET r == checkManifestForTag(bearerToken[p], tag[p], out)
             IN  /\ Do(p, rq, out)
                 /\ ret' = [ret EXCEPT ![p] = r]
                 /\ pc' = [pc EXCEPT ![p] = "returned"]
    /\ UNCHANGED <<client, env, tag, authToken, bearerToken, anonErr, reads, exchErr>>

\* Some invocation of IsTagExist takes its next step.
Next ==
    \/ \E p \in Procs : AnonymousCheck(p)
    \/ \E p \in Procs : GetBearerToken(p)
    \/ \E p \in Procs : RetrieveBearerToken(p)
    \/ \E p \in Procs : CheckWithBearer(p)

\* The environment: the four variables named after the registry, and GITHUB_TOKEN
\* (which is the registry's own _TOKEN variable when the registry is named GITHUB).
Environ(name, tok, auth, user, pass, gh) ==
    [n \in {name \o S_TOKEN, name \o S_AUTH, name \o S_USER, name \o S_PASSWORD,
            S_GITHUB_TOKEN} |->
        IF n = S_GITHUB_TOKEN THEN gh
        ELSE IF n = name \o S_TOKEN THEN tok
        ELSE IF n = name \o S_AUTH THEN auth
        ELSE IF n = name \o S_USER THEN user
        ELSE pass]

\* A client, an environment, and the invocations in ps about to start.
InitFor(ps) ==
    /\ \E name \in RegistryNames :
         /\ client = [RegistryName |-> name, RegistryURL |-> "registry.example",
                      ImagePath |-> "org/image"]
         /\ \E tok \in TokenValues, auth \in AuthValues, user \in UserValues,
               pass \in PassValues, gh \in GithubValues :
              env = Environ(name, tok, auth, user, pass, gh)
    /\ server = {}
    /\ pc = [p \in ps |-> "checkAnonymous"]
    /\ tag \in [ps -> Tags]
    /\ authToken = [p \in ps |-> S_Empty]
    /\ bearerToken = [p \in ps |-> S_Empty]
    /\ ret = [p \in ps |-> [found |-> FALSE, err |-> Nil]]
    /\ log = [p \in ps |-> << >>]
    /\ anonErr = [p \in ps |-> Nil]
    /\ reads = [p \in ps |-> {}]
    /\ exchErr = [p \in ps |-> Nil]

\* One invocation.
Init == InitFor({1})
Spec == Init /\ [][Next]_vars

\* One invocation, whose every step is eventually taken: the code is sequential
\* and each HTTP exchange ends, in a response or in an error.
FairSpec == Init /\ [][Next]_vars /\ WF_vars(Next)

\* NumProcs concurrent invocations on the same client.
InitConc == InitFor(1..NumProcs)
ConcSpec == InitConc /\ [][Next]_vars

(***************************************************************************)
(* Vocabulary of the properties.                                           *)
(***************************************************************************)
Returned(p) == pc[p] = "returned"

\* The positions in the log of an invocation of the requests to the auth endpoint,
\* and of the manifest requests.
AuthGets(p) == {i \in 1..Len(log[p]) : log[p][i].req.method = "GET"}
ManifestHeads(p) == {i \in 1..Len(log[p]) : log[p][i].req.method = "HEAD"}
Last(p) == log[p][Len(log[p])]

\* The manifest request for a tag with a given Authorization header.
ManifestRequest(t, auth) ==
    [method |-> "HEAD",
     endpoint |-> [api |-> "manifest", url |-> client.RegistryURL,
                   path |-> client.ImagePath, tag |-> t],
     auth |-> auth]

\* The result a manifest check has to have, by the outcome of its request.
ExpectedCheck(out) ==
    IF out.kind = "do_err" THEN [found |-> FALSE, err |-> ErrDo]
    ELSE IF out.kind = "read_err" THEN [found |-> FALSE, err |-> ErrReadAll]
    ELSE IF out.status = 200 THEN [found |-> TRUE, err |-> Nil]
    ELSE IF out.status = 404 THEN [found |-> FALSE, err |-> Nil]
    ELSE [found |-> FALSE, err |-> ErrManifestStatus(out.status)]

\* The error a token exchange has to end in, by the outcome of its request
\* (Nil: it yields the token of the body, "" when the body has none).
ExpectedExchangeErr(out) ==
    IF out.kind = "do_err" THEN ErrDo
    ELSE IF out.kind = "read_err" THEN ErrReadAll
    ELSE IF out.status # 200 THEN ErrAuthStatus(out.status)
    ELSE IF out.body.syntax = "invalid" \/ out.body.member = "number" THEN ErrUnmarshal
    ELSE Nil

\* base64("xyz") and base64("u:p"), written out.
B64_xyz == <<101, 72, 108, 54>>     \* "eHl6"
B64_u_p == <<100, 84, 112, 119>>    \* "dTpw"

(***************************************************************************)
(* C1.  When the anonymous manifest check ends without error, IsTagExist   *)
(* returns its result at once: 200 gives (true, nil), 404 gives (false,    *)
(* nil), and the anonymous HEAD is the only request of the invocation.     *)
(***************************************************************************)
C1_AnonymousResultReturned ==
    \A p \in Procs :
        (pc[p] # "checkAnonymous" /\ anonErr[p] = Nil) =>
            /\ Returned(p)
            /\ Len(log[p]) = 1
            /\ log[p][1].req = ManifestRequest(tag[p], S_Empty)
            /\ log[p][1].out.kind = "response"
            /\ log[p][1].out.status \in {200, 404}
            /\ log[p][1].out.status = 200 => ret[p] = [found |-> TRUE, err |-> Nil]
            /\ log[p][1].out.status = 404 => ret[p] = [found |-> FALSE, err |-> Nil]

C1_Witness ==
    \E p \in Procs :
        /\ Returned(p) /\ Len(log[p]) = 1
        /\ log[p][1].out.kind = "response" /\ log[p][1].out.status = 404
        /\ ret[p] = [found |-> FALSE, err |-> Nil]
        /\ \A n \in DOMAIN env : env[n] # S_Empty

(***************************************************************************)
(* C2.  When the anonymous check failed (in transport or by its status)    *)
(* and {NAME}_TOKEN is T, not empty: no request goes to the auth endpoint, *)
(* the second manifest HEAD carries "Bearer T", and its result is the      *)
(* result of IsTagExist, whatever the other variables hold.                *)
(***************************************************************************)
C2_EnvTokenUsed ==
    \A p \in Procs :
        (anonErr[p] \notin {Nil, ErrNewRequest} /\ Getenv(NameToken) # S_Empty) =>
            /\ AuthGets(p) = {}
            /\ pc[p] \in {"getBearerToken", "checkWithBearer", "returned"}
            /\ pc[p] = "checkWithBearer" => bearerToken[p] = Getenv(NameToken)
            /\ Returned(p) =>
                 /\ Len(log[p]) = 2
                 /\ log[p][2].req =
                        ManifestRequest(tag[p], S_Bearer \o Getenv(NameToken))
                 /\ ret[p] = ExpectedCheck(log[p][2].out)

C2_Witness ==
    \E p \in Procs :
        /\ Returned(p) /\ anonErr[p] = ErrDo
        /\ \A n \in DOMAIN env : env[n] # S_Empty
        /\ Len(log[p]) = 2
        /\ log[p][2].req.auth = S_Bearer \o <<97, 98, 99>>
        /\ ret[p] = [found |-> TRUE, err |-> Nil]

(***************************************************************************)
(* C3.  When the anonymous check failed and none of {NAME}_TOKEN,          *)
(* {NAME}_AUTH, {NAME}_USER, {NAME}_PASSWORD, GITHUB_TOKEN is set,         *)
(* IsTagExist returns (false, "could not get credentials for NAME"), with  *)
(* no request to the auth endpoint and no second manifest check; for every *)
(* registry name, GHCR_IO included.                                        *)
(***************************************************************************)
C3_MissingCredentials ==
    \A p \in Procs :
        (anonErr[p] # Nil /\ \A n \in DOMAIN env : env[n] = S_Empty) =>
            /\ pc[p] \in {"getBearerToken", "returned"}
            /\ AuthGets(p) = {}
            /\ Len(log[p]) <= 1
            /\ \A i \in ManifestHeads(p) : log[p][i].req.auth = S_Empty
            /\ Returned(p) =>
                 ret[p] = [found |-> FALSE,
                           err |-> Error("could not get credentials for", 0,
                                         client.RegistryName)]

C3_Witness ==
    \E p \in Procs :
        /\ Returned(p) /\ anonErr[p] # Nil
        /\ \A n \in DOMAIN env : env[n] = S_Empty
        /\ client.RegistryName = S_GHCR_IO
        /\ ret[p].err.kind = "could not get credentials for"

(***************************************************************************)
(* C4.  Registry GHCR_IO, GHCR_IO_TOKEN unset, and the token exchange with *)
(* the auth endpoint failed.  With GITHUB_TOKEN = G, not empty, the bearer *)
(* token of the authenticated manifest check is base64(G) and no further   *)
(* exchange is made; with GITHUB_TOKEN unset, IsTagExist returns the error *)
(* of the exchange.                                                        *)
(***************************************************************************)
C4_GithubTokenFallback ==
    \A p \in Procs :
        (/\ client.RegistryName = S_GHCR_IO
         /\ Getenv(NameToken) = S_Empty
         /\ AuthGets(p) # {}
         /\ \E i \in AuthGets(p) : ExpectedExchangeErr(log[p][i].out) # Nil) =>
            LET G == Getenv(S_GITHUB_TOKEN)
                g == CHOOSE i \in AuthGets(p) : TRUE
            IN  /\ Cardinality(AuthGets(p)) = 1
                /\ exchErr[p] = ExpectedExchangeErr(log[p][g].out)
                /\ G # S_Empty =>
                     /\ pc[p] \in {"checkWithBearer", "returned"}
                     /\ bearerToken[p] = Base64(G)
                     /\ G = <<120, 121, 122>> => bearerToken[p] = B64_xyz
                     /\ \A i \in ManifestHeads(p) :
                          i > g => log[p][i].req.auth = S_Bearer \o Base64(G)
                     /\ (Returned(p) /\ ValidURL(manifestAPI("", "", tag[p]))) =>
                          /\ Len(log[p]) = g + 1
                          /\ Last(p).req.method = "HEAD"
                          /\ ret[p] = ExpectedCheck(Last(p).out)
                /\ G = S_Empty =>
                     /\ Returned(p)
                     /\ Len(log[p]) = g
                     /\ ret[p] = [found |-> FALSE, err |-> exchErr[p]]

C4_Witness ==
    \E p \in Procs :
        /\ Returned(p)
        /\ client.RegistryName = S_GHCR_IO
        /\ Getenv(S_GITHUB_TOKEN) = <<120, 121, 122>>
        /\ Len(log[p]) = 3
        /\ log[p][2].req.method = "GET" /\ log[p][2].out.status = 401
        /\ log[p][3].req.auth = S_Bearer \o B64_xyz
        /\ ret[p] = [found |-> TRUE, err |-> Nil]

(***************************************************************************)
(* C5.  GITHUB_TOKEN counts for nothing unless the registry is named       *)
(* GHCR_IO, and for GHCR_IO it becomes the bearer token only when a token  *)
(* exchange with the auth endpoint was made and failed.                    *)
(***************************************************************************)
\* The bearer token of the invocation is the one made of GITHUB_TOKEN: the only
\* bearer token there is after getBearerTokenFromAuthToken returned an error.
UsedGithubToken(p) ==
    /\ pc[p] \in {"checkWithBearer", "returned"}
    /\ exchErr[p] # Nil
    /\ bearerToken[p] # S_Empty

ExchangeFailed(p) ==
    \E i \in AuthGets(p) : ExpectedExchangeErr(log[p][i].out) # Nil

\* The value of GITHUB_TOKEN, when it has one, is not the bearer token of the
\* invocation, neither as it is nor base64-encoded.
GithubValueUnused(p) ==
    Getenv(S_GITHUB_TOKEN) # S_Empty =>
        bearerToken[p] \notin {Getenv(S_GITHUB_TOKEN), Base64(Getenv(S_GITHUB_TOKEN))}

\* C5 as stated: for every name but GHCR_IO the value of GITHUB_TOKEN is never the
\* bearer token and a failed acquisition is the result; for GHCR_IO the fallback
\* follows a failed exchange only.
C5_AsStated ==
    \A p \in Procs :
        /\ client.RegistryName # S_GHCR_IO =>
             /\ GithubValueUnused(p)
             /\ exchErr[p] # Nil =>
                  (Returned(p) /\ ret[p] = [found |-> FALSE, err |-> exchErr[p]])
        /\ (client.RegistryName = S_GHCR_IO /\ UsedGithubToken(p)) =>
             /\ Getenv(NameToken) = S_Empty
             /\ ExchangeFailed(p)

\* C5 amended: GITHUB_TOKEN counts for nothing unless the registry is named
\* GHCR_IO or GITHUB_TOKEN is the registry's own {NAME}_TOKEN variable (name
\* GITHUB); for GHCR_IO it becomes the bearer token, base64-encoded, only when
\* GHCR_IO_TOKEN is unset and getBearerTokenFromAuthToken failed: the exchange was
\* made and failed, or no auth token could be derived from the environment and no
\* exchange was made.  It is never looked at when GHCR_IO_TOKEN is set or the
\* exchange succeeded.
C5_GithubTokenScope ==
    \A p \in Procs :
        /\ (client.RegistryName # S_GHCR_IO /\ NameToken # S_GITHUB_TOKEN) =>
             /\ S_GITHUB_TOKEN \notin reads[p]
             /\ GithubValueUnused(p)
             /\ exchErr[p] # Nil =>
                  (Returned(p) /\ ret[p] = [found |-> FALSE, err |-> exchErr[p]])
        /\ (client.RegistryName = S_GHCR_IO /\ UsedGithubToken(p)) =>
             /\ Getenv(NameToken) = S_Empty
             /\ Getenv(S_GITHUB_TOKEN) # S_Empty
             /\ bearerToken[p] = Base64(Getenv(S_GITHUB_TOKEN))
             /\ \/ Cardinality(AuthGets(p)) = 1 /\ ExchangeFailed(p)
                \/ /\ AuthGets(p) = {}
                   /\ Getenv(NameAuth) = S_Empty
                   /\ Getenv(NameUser) = S_Empty \/ Getenv(NamePassword) = S_Empty
        /\ (client.RegistryName = S_GHCR_IO /\ exchErr[p] = Nil) =>
             S_GITHUB_TOKEN \notin reads[p]

C5_Witness ==
    \E p \in Procs :
        /\ Returned(p)
        /\ client.RegistryName = S_GHCR_IO
        /\ UsedGithubToken(p)
        /\ AuthGets(p) = {}
        /\ Len(log[p]) = 2
        /\ log[p][2].req.auth = S_Bearer \o B64_xyz
        /\ ret[p] = [found |-> TRUE, err |-> Nil]

(***************************************************************************)
(* C6.  "Cannot determine" is never reported as "not found".  A returned   *)
(* nil error means the last manifest HEAD answered 200 (exists) or 404     *)
(* (does not exist); in every other case (another status, a transport      *)
(* failure, a failed token acquisition) the result is (false, error).      *)
(***************************************************************************)
\* The last request of the invocation was a manifest HEAD answered with status st.
LastHeadAnswered(p, st) ==
    /\ Len(log[p]) > 0
    /\ Last(p).req.method = "HEAD"
    /\ Last(p).out.kind = "response"
    /\ Last(p).out.status = st

C6_NeverNotFoundOnFailure ==
    \A p \in Procs :
        Returned(p) =>
            /\ ret[p].found => ret[p].err = Nil
            /\ ret[p].err = Nil <=> (LastHeadAnswered(p, 200) \/ LastHeadAnswered(p, 404))
            /\ ret[p].err = Nil => (ret[p].found <=> LastHeadAnswered(p, 200))
            /\ ret[p].err # Nil => ret[p].found = FALSE

C6_Witness ==
    \E p \in Procs :
        /\ Returned(p)
        /\ Len(log[p]) = 3
        /\ LastHeadAnswered(p, 500)
        /\ ret[p] = [found |-> FALSE,
                     err |-> Error("unexpected response registry API", 500, S_Empty)]

(***************************************************************************)
(* C7.  With {NAME}_TOKEN unset, the auth token sent as "Basic ..." to the *)
(* auth endpoint is {NAME}_AUTH verbatim when that is not empty (and       *)
(* {NAME}_USER, {NAME}_PASSWORD are not looked at); else base64("u:p")     *)
(* when both {NAME}_USER = u and {NAME}_PASSWORD = p are not empty; else   *)
(* getting the auth token fails with "could not get credentials" and no    *)
(* request goes to the auth endpoint.                                      *)
(***************************************************************************)
C7_AuthTokenChoice ==
    \A p \in Procs :
        (Getenv(NameToken) = S_Empty /\ anonErr[p] # Nil /\ pc[p] # "getBearerToken") =>
            LET A == Getenv(NameAuth)
                U == Getenv(NameUser)
                P == Getenv(NamePassword)
            IN  /\ A # S_Empty =>
                     /\ AuthGets(p) # {} \/ pc[p] = "retrieveBearerToken"
                     /\ authToken[p] = A
                     /\ \A i \in AuthGets(p) : log[p][i].req.auth = S_Basic \o A
                     /\ reads[p] \cap {NameUser, NamePassword} = {}
                /\ (A = S_Empty /\ U # S_Empty /\ P # S_Empty) =>
                     /\ AuthGets(p) # {} \/ pc[p] = "retrieveBearerToken"
                     /\ authToken[p] = Base64(U \o <<58>> \o P)
                     /\ (U = <<117>> /\ P = <<112>>) => authToken[p] = B64_u_p
                     /\ \A i \in AuthGets(p) :
                          log[p][i].req.auth = S_Basic \o Base64(U \o <<58>> \o P)
                /\ (A = S_Empty /\ (U = S_Empty \/ P = S_Empty)) =>
                     /\ AuthGets(p) = {}
                     /\ exchErr[p] = Error("could not get credentials for", 0,
                                           client.RegistryName)

C7_Witness ==
    \E p \in Procs :
        /\ Returned(p)
        /\ Getenv(NameToken) = S_Empty /\ Getenv(NameAuth) = S_Empty
        /\ Len(log[p]) = 3
        /\ log[p][2].req.method = "GET"
        /\ log[p][2].req.auth = S_Basic \o B64_u_p

(***************************************************************************)
(* C8.  Bearer-token acquisition ends in an error whenever it produced no  *)
(* non-empty bearer token: when the auth endpoint answers 200 with a body  *)
(* whose "token" is missing or empty, IsTagExist returns (false, error),   *)
(* also for GHCR_IO with GITHUB_TOKEN set.  So the second manifest HEAD is *)
(* never sent with an empty bearer token.                                  *)
(***************************************************************************)
\* The auth endpoint answered 200 with JSON holding no token, or an empty one.
EmptyTokenIssued(p) ==
    \E i \in AuthGets(p) :
        /\ log[p][i].out.kind = "response"
        /\ log[p][i].out.status = 200
        /\ log[p][i].out.body.syntax = "object"
        /\ \/ log[p][i].out.body.member = "absent"
           \/ log[p][i].out.body.member = "string" /\ log[p][i].out.body.token = S_Empty

C8_NoEmptyBearer ==
    \A p \in Procs :
        /\ EmptyTokenIssued(p) =>
             /\ Returned(p)
             /\ ret[p] = [found |-> FALSE,
                          err |-> Error("could not get a bearer token for", 0,
                                        client.RegistryName)]
             /\ Last(p).req.method = "GET"
        /\ pc[p] = "checkWithBearer" => bearerToken[p] # S_Empty
        /\ \A i \in ManifestHeads(p) :
             (i > 1 \/ anonErr[p] = ErrNewRequest) =>
                 /\ Len(log[p][i].req.auth) > Len(S_Bearer)
                 /\ SubSeq(log[p][i].req.auth, 1, Len(S_Bearer)) = S_Bearer

C8_Witness ==
    \E p \in Procs :
        /\ Returned(p)
        /\ EmptyTokenIssued(p)
        /\ client.RegistryName = S_GHCR_IO
        /\ Getenv(S_GITHUB_TOKEN) # S_Empty
        /\ ret[p].err.kind = "could not get a bearer token for"

(***************************************************************************)
(* C9.  An invocation ends after at most three requests, in the order      *)
(* anonymous HEAD, auth GET, authenticated HEAD, none of them repeated;    *)
(* the GET follows a failed anonymous check, the authenticated HEAD        *)
(* follows a bearer token; and but for the error of the anonymous HEAD     *)
(* every failure is returned to the caller unchanged and ends the          *)
(* invocation.                                                             *)
(***************************************************************************)
\* The place of a request in the order of IsTagExist.
Rank(rq) == IF rq.method = "GET" THEN 2 ELSE IF rq.auth = S_Empty THEN 1 ELSE 3

\* At most three requests, each kind at most once, in the order of their ranks.
RequestOrder(p) ==
    /\ Len(log[p]) <= 3
    /\ \A i, j \in 1..Len(log[p]) : i < j => Rank(log[p][i].req) < Rank(log[p][j].req)
    /\ \A i \in 1..Len(log[p]) :
         /\ Rank(log[p][i].req) = 1 => log[p][i].req = ManifestRequest(tag[p], S_Empty)
         /\ Rank(log[p][i].req) = 2 => anonErr[p] # Nil
         /\ Rank(log[p][i].req) = 3 =>
              /\ anonErr[p] # Nil
              /\ bearerToken[p] # S_Empty
              /\ log[p][i].req = ManifestRequest(tag[p], S_Bearer \o bearerToken[p])

\* The authenticated check was made: its result, error or not, is what is returned.
AuthenticatedResultReturned(p) ==
    (Returned(p) /\ bearerToken[p] # S_Empty) =>
        IF ValidURL(manifestAPI("", "", tag[p]))
        THEN Rank(Last(p).req) = 3 /\ ret[p] = ExpectedCheck(Last(p).out)
        ELSE ret[p] = [found |-> FALSE, err |-> ErrNewRequest]

\* C9 as stated: a failed token exchange always ends the invocation, and its error
\* is what IsTagExist returns.
C9_AsStated ==
    \A p \in Procs :
        /\ RequestOrder(p)
        /\ AuthenticatedResultReturned(p)
        /\ (AuthGets(p) # {} /\ exchErr[p] # Nil) =>
             (Returned(p) /\ ret[p] = [found |-> FALSE, err |-> exchErr[p]])

\* C9 amended, its safety part: as stated, except that for GHCR_IO with
\* GITHUB_TOKEN set the error of getBearerTokenFromAuthToken is swallowed too (the
\* encoded GITHUB_TOKEN becomes the bearer token and the invocation goes on).
\* In every other case that error ends the invocation and is returned unchanged,
\* and so are the error of getBearerToken itself and of the authenticated HEAD.
C9_Safety ==
    \A p \in Procs :
        /\ RequestOrder(p)
        /\ AuthenticatedResultReturned(p)
        /\ (exchErr[p] # Nil
            /\ ~(client.RegistryName = S_GHCR_IO /\ Getenv(S_GITHUB_TOKEN) # S_Empty)) =>
             (Returned(p) /\ ret[p] = [found |-> FALSE, err |-> exchErr[p]])
        /\ (exchErr[p] # Nil
            /\ client.RegistryName = S_GHCR_IO /\ Getenv(S_GITHUB_TOKEN) # S_Empty) =>
             /\ pc[p] \in {"checkWithBearer", "returned"}
             /\ bearerToken[p] = Base64(Getenv(S_GITHUB_TOKEN))
        /\ (Returned(p) /\ anonErr[p] # Nil /\ exchErr[p] = Nil
            /\ bearerToken[p] = S_Empty) =>
             ret[p] = [found |-> FALSE, err |-> ErrBearerToken(client.RegistryName)]

\* C9 amended: the safety part always holds, and every invocation returns.
C9_Amended == []C9_Safety /\ <>(\A p \in Procs : Returned(p))

C9_Witness ==
    \E p \in Procs :
        /\ Returned(p)
        /\ client.RegistryName = S_GHCR_IO
        /\ Len(log[p]) = 3
        /\ log[p][2].out.kind = "do_err"
        /\ exchErr[p] = ErrDo
        /\ ret[p] = [found |-> FALSE, err |-> ErrManifestStatus(401)]

(***************************************************************************)
(* C10.  Concurrent invocations on one RegistryClient are independent:     *)
(* with a fixed environment and a registry that answers each request by    *)
(* the request alone, under every interleaving each invocation sends the   *)
(* requests and returns the result it would running alone, and none        *)
(* changes the client or the environment.                                  *)
(***************************************************************************)
\* The registry's answer to a request it has seen.
Answer(rq) ==
    IF \E e \in server : e.req = rq
    THEN (CHOOSE e \in server : e.req = rq).out
    ELSE Outcome("unanswered", 0, NoBody)

Exchange(rq) == IF Sent(rq) THEN <<[req |-> rq, out |-> Answer(rq)]>> ELSE << >>

\* IsTagExist(t) run from start to end on its own against the registry's answers:
\* the requests it sends and the result it returns.
Alone(t) ==
    LET rq1 == checkManifestForTagRequest(S_Empty, t)
        r1 == checkManifestForTag(S_Empty, t, Answer(rq1))
        a == getAuthToken
        rq2 == retrieveBearerTokenRequest(a.token)
        viaEnv == Getenv(NameToken) # S_Empty
        exchanged == ~viaEnv /\ a.err = Nil
        b == IF viaEnv THEN [token |-> Getenv(NameToken), err |-> Nil]
             ELSE IF a.err # Nil THEN getBearerTokenAfter(a)
             ELSE getBearerTokenAfter(retrieveBearerToken(a.token, Answer(rq2)))
        l2 == IF exchanged THEN Exchange(rq2) ELSE << >>
        rq3 == checkManifestForTagRequest(b.token, t)
        r3 == checkManifestForTag(b.token, t, Answer(rq3))
    IN  IF r1.err = Nil THEN [ret |-> [found |-> r1.found, err |-> Nil], log |-> Exchange(rq1)]
        ELSE IF b.err # Nil
        THEN [ret |-> [found |-> FALSE, err |-> b.err], log |-> Exchange(rq1) \o l2]
        ELSE [ret |-> r3, log |-> Exchange(rq1) \o l2 \o Exchange(rq3)]

RunsAsAlone ==
    \A p \in Procs :
        Returned(p) => (ret[p] = Alone(tag[p]).ret /\ log[p] = Alone(tag[p]).log)

C10_Independent == [][client' = client /\ env' = env]_vars /\ []RunsAsAlone

C10_Witness ==
    /\ Cardinality(Procs) >= 2
    /\ \A p \in Procs :
         /\ Returned(p)
         /\ Len(log[p]) = 3
         /\ ret[p] = [found |-> TRUE, err |-> Nil]
    /\ \E p, q \in Procs : tag[p] = tag[q] /\ p # q

====
